---- MODULE Spec2Model ----
(***************************************************************************)
(* Accept-Language matcher of le-arch/language-parser.                     *)
(*                                                                         *)
(* parseAcceptLanguage(header, supported) of main.go is modelled as a      *)
(* state machine: one action for the early return, one for the lookup      *)
(* construction, one for the header split, one per kind of token-loop      *)
(* iteration and one for the return.  Strings are sequences of one-        *)
(* character strings, so that Split, TrimSpace, SplitN and Contains are    *)
(* computed character by character as the Go library does.                 *)
(***************************************************************************)
EXTENDS Naturals, Sequences, FiniteSets, TLC

VARIABLES header, supported, pc, supportedExact, supportedGeneric,
          supportedOrder, clientPrefs, idx, lang, result, seen,
          call, first, parsed, parked

\* The caller's record: which call is running, what the first call
\* returned, and what LanguageParser.Parse of parser.go returned; and the
\* frame of a second invocation while it is not the running one.
callerVars == <<call, first, parsed, parked>>

vars == <<header, supported, pc, supportedExact, supportedGeneric,
          supportedOrder, clientPrefs, idx, lang, result, seen,
          call, first, parsed, parked>>

(***************************************************************************)
(* Bounds of the explored inputs.                                          *)
(***************************************************************************)
\* Largest number of comma-separated pieces of a header.
MaxTokens == 3
\* Largest length of the supported list.
MaxSupported == 3

(***************************************************************************)
(* String literals (Go strings as character sequences).                    *)
(***************************************************************************)
Empty == <<>>
Comma == ","
Hyphen == "-"
Star == <<"*">>
WhiteSpace == {" ", "\t", "\n", "\r"}

enUS == <<"e", "n", "-", "U", "S">>
frCA == <<"f", "r", "-", "C", "A">>
frFR == <<"f", "r", "-", "F", "R">>
frBE == <<"f", "r", "-", "B", "E">>
zhHantTW == <<"z", "h", "-", "H", "a", "n", "t", "-", "T", "W">>
fr == <<"f", "r">>
zh == <<"z", "h">>
spFr == <<" ", "f", "r">>
spStar == <<" ", "*">>
spFrCA == <<" ", "f", "r", "-", "C", "A">>
enGB == <<"e", "n", "-", "G", "B">>
enAU == <<"e", "n", "-", "A", "U">>
en == <<"e", "n">>
spEn == <<" ", "e", "n">>
spEnGB == <<" ", "e", "n", "-", "G", "B">>
enus == <<"e", "n", "-", "u", "s">>
upEN == <<"E", "N">>
hyX == <<"-", "x">>
tokX == <<"x">>
blank == <<" ">>
padFrCA == <<" ", "f", "r", "-", "C", "A", " ">>
frTab == <<"f", "r", "\t">>
tabStar == <<"\t", "*">>

(***************************************************************************)
(* The Go string library, as used by the matcher.                          *)
(***************************************************************************)
\* Index of the first occurrence of character c in s, 0 when absent.
RECURSIVE IndexFrom(_, _, _)
IndexFrom(s, c, i) ==
    IF i > Len(s) THEN 0
    ELSE IF s[i] = c THEN i
    ELSE IndexFrom(s, c, i + 1)

Index(s, c) == IndexFrom(s, c, 1)

\* strings.Contains(s, c) for a one-character separator.
Contains(s, c) == Index(s, c) # 0

\* strings.Split(s, ","): the pieces between separators, empty pieces kept;
\* a string without separator gives the one-element list <<s>>.
\* Piece k lies between cut k - 1 and cut k, the cuts being the separators
\* and the two ends of s.
Split(s, c) ==
    LET Cuts == {0, Len(s) + 1} \cup {j \in DOMAIN s : s[j] = c}
        Cut(k) == CHOOSE j \in Cuts : Cardinality({i \in Cuts : i < j}) = k
    IN  [k \in 1..(Cardinality(Cuts) - 1) |->
            SubSeq(s, Cut(k - 1) + 1, Cut(k) - 1)]

\* strings.SplitN(s, "-", 2): at most two parts, cut at the first separator.
SplitN2(s, c) ==
    LET k == Index(s, c)
    IN  IF k = 0 THEN <<s>>
        ELSE <<SubSeq(s, 1, k - 1), SubSeq(s, k + 1, Len(s))>>

\* strings.TrimSpace(s): leading and trailing white space removed.
RECURSIVE TrimLeft(_)
TrimLeft(s) ==
    IF s # <<>> /\ Head(s) \in WhiteSpace THEN TrimLeft(Tail(s)) ELSE s

RECURSIVE TrimRight(_)
TrimRight(s) ==
    IF s # <<>> /\ s[Len(s)] \in WhiteSpace
    THEN TrimRight(SubSeq(s, 1, Len(s) - 1))
    ELSE s

\* Variant of TrimSpace that removes leading white space only.
TrimSpaceLeading(s) == TrimLeft(s)

TrimSpace(s) == TrimRight(TrimLeft(s))

\* Lower case of a character (other characters are left alone).
UpperCase == <<"A", "B", "C", "D", "E", "F", "G", "H", "I", "J", "K", "L", "M",
               "N", "O", "P", "Q", "R", "S", "T", "U", "V", "W", "X", "Y", "Z">>
LowerCase == <<"a", "b", "c", "d", "e", "f", "g", "h", "i", "j", "k", "l", "m",
               "n", "o", "p", "q", "r", "s", "t", "u", "v", "w", "x", "y", "z">>
ToLowerChar(c) ==
    IF \E i \in DOMAIN UpperCase : UpperCase[i] = c
    THEN LowerCase[CHOOSE i \in DOMAIN UpperCase : UpperCase[i] = c]
    ELSE c

\* strings.ToLower(s); the matcher itself never calls it.
ToLower(s) == [i \in DOMAIN s |-> ToLowerChar(s[i])]

\* The header text of a list of pieces: the pieces joined by commas.
RECURSIVE Join(_)
Join(ps) ==
    IF ps = <<>> THEN <<>>
    ELSE IF Len(ps) = 1 THEN ps[1]
    ELSE ps[1] \o <<Comma>> \o Join(Tail(ps))

(***************************************************************************)
(* Inputs.                                                                 *)
(***************************************************************************)
SeqsUpTo(S, n) == UNION {[1..k -> S] : k \in 0..n}

\* The README family: regional tags, exact, generic and wildcard tokens.
TagsA == {enUS, frCA, frFR}
PiecesA == {frFR, spFr, Star, enUS, frBE}

\* A tag without region next to its variants, a tag with two hyphens, and
\* tokens that are their prefixes.
TagsB == {fr, frCA, frFR, zhHantTW}
PiecesB == {fr, zh, spFrCA, spStar, Empty}

\* Padded tokens, empty and blank pieces.
TagsW == {enUS, frCA}
PiecesW == {Empty, blank, padFrCA, frTab, tabStar, enUS}

\* Tokens that differ from the tags, or from their prefix, in letter case.
TagsC == {enUS, frCA}
PiecesC == {enus, upEN, enUS, en, spFrCA}

\* Degenerate tags: the empty string, a leading hyphen, a literal "*".
TagsE == {Empty, hyX, Star}
PiecesE == {Empty, hyX, Star, tokX, blank}

\* The README case "en-US, en, en-GB" on [en-US, en-GB, en-AU].
TagsS == {enUS, enGB, enAU}
PiecesS == {enUS, spEn, spEnGB}

\* The header is the join of up to MaxTokens pieces, the supported list has
\* up to MaxSupported tags (repeats allowed), both from one family.
InputFrom(Pieces, Tags) ==
    \E ps \in SeqsUpTo(Pieces, MaxTokens), sup \in SeqsUpTo(Tags, MaxSupported) :
        header = Join(ps) /\ supported = sup

(***************************************************************************)
(* Helpers of the matcher.                                                 *)
(***************************************************************************)
\* Variant of Generic that cuts at the last hyphen instead of the first.
GenericLastHyphen(l) ==
    LET H == {i \in DOMAIN l : l[i] = Hyphen}
    IN  IF H = {} THEN l
        ELSE SubSeq(l, 1, (CHOOSE i \in H : \A j \in H : j <= i) - 1)

\* The generic part of a tag: parts[0] of SplitN(lang, "-", 2).
Generic(l) == SplitN2(l, Hyphen)[1]

\* Variant of AddVariant that puts the new variant in front of the list.
AddVariantPrepend(m, l) ==
    LET g == Generic(l)
    IN  IF g \in DOMAIN m THEN [m EXCEPT ![g] = <<l>> \o @]
        ELSE m @@ (g :> <<l>>)

\* One iteration of the lookup loop on the generic map:
\* supportedGeneric[generic] = append(supportedGeneric[generic], lang).
AddVariant(m, l) ==
    LET g == Generic(l)
    IN  IF g \in DOMAIN m THEN [m EXCEPT ![g] = Append(@, l)]
        ELSE m @@ (g :> <<l>>)

\* The lookup loop over supported[i..]: the exact set and the generic map.
RECURSIVE BuildGeneric(_, _, _)
BuildGeneric(sup, i, m) ==
    IF i > Len(sup) THEN m
    ELSE BuildGeneric(sup, i + 1, AddVariant(m, sup[i]))

\* Variant of BuildExact that registers only the first tag of a language.
RECURSIVE BuildExactFirstOfLanguage(_, _, _)
BuildExactFirstOfLanguage(sup, i, e) ==
    IF i > Len(sup) THEN e
    ELSE IF \E j \in 1..(i - 1) : Generic(sup[j]) = Generic(sup[i])
         THEN BuildExactFirstOfLanguage(sup, i + 1, e)
         ELSE BuildExactFirstOfLanguage(sup, i + 1, e \cup {sup[i]})

RECURSIVE BuildExact(_, _, _)
BuildExact(sup, i, e) ==
    IF i > Len(sup) THEN e
    ELSE BuildExact(sup, i + 1, e \cup {sup[i]})

\* Variant of AppendUnseen without the seen check.
RECURSIVE AppendAll(_, _, _, _)
AppendAll(list, i, res, sn) ==
    IF i > Len(list) THEN [result |-> res, seen |-> sn]
    ELSE AppendAll(list, i + 1, Append(res, list[i]), sn \cup {list[i]})

\* The inner loops of the wildcard and the generic rule: every element of
\* list not yet seen is appended and marked seen, in list order.
RECURSIVE AppendUnseen(_, _, _, _)
AppendUnseen(list, i, res, sn) ==
    IF i > Len(list) THEN [result |-> res, seen |-> sn]
    ELSE IF list[i] \notin sn
         THEN AppendUnseen(list, i + 1, Append(res, list[i]), sn \cup {list[i]})
         ELSE AppendUnseen(list, i + 1, res, sn)

(***************************************************************************)
(* The state machine.                                                      *)
(***************************************************************************)
NoMap == [g \in {} |-> <<>>]

\* No second invocation.
NoFrame == [pc |-> "none"]

Init ==
    /\ InputFrom(PiecesA, TagsA) \/ InputFrom(PiecesB, TagsB)
    /\ pc = "entry"
    /\ supportedExact = {}
    /\ supportedGeneric = NoMap
    /\ supportedOrder = <<>>
    /\ clientPrefs = <<>>
    /\ idx = 0
    /\ lang = <<>>
    /\ result = <<>>
    /\ seen = {}
    /\ call = "first"
    /\ first = <<>>
    /\ parsed = <<>>
    /\ parked = NoFrame

\* Variant of EarlyReturn that answers with the whole supported list.
EarlyReturnAll ==
    /\ pc = "entry"
    /\ header = Empty \/ Len(supported) = 0
    /\ result' = supported
    /\ pc' = "done"
    /\ UNCHANGED <<header, supported, supportedExact, supportedGeneric,
                   supportedOrder, clientPrefs, idx, lang, seen>>
    /\ UNCHANGED callerVars

\* if header == "" || len(supported) == 0 { return []string{} }
EarlyReturn ==
    /\ pc = "entry"
    /\ header = Empty \/ Len(supported) = 0
    /\ result' = <<>>
    /\ pc' = "done"
    /\ UNCHANGED <<header, supported, supportedExact, supportedGeneric,
                   supportedOrder, clientPrefs, idx, lang, seen>>
    /\ UNCHANGED callerVars

\* Variant of BuildLookup that also reads the region, parts[1], of each tag.
BuildLookupRegion ==
    /\ pc = "entry"
    /\ ~(header = Empty \/ Len(supported) = 0)
    /\ IF \E i \in DOMAIN supported : Len(SplitN2(supported[i], Hyphen)) < 2
       THEN /\ pc' = "panic"
            /\ UNCHANGED <<supportedOrder, supportedExact, supportedGeneric>>
       ELSE /\ supportedOrder' = supported
            /\ supportedExact' = BuildExact(supported, 1, {})
            /\ supportedGeneric' = BuildGeneric(supported, 1, NoMap)
            /\ pc' = "split"
    /\ UNCHANGED <<header, supported, clientPrefs, idx, lang, result, seen>>
    /\ UNCHANGED callerVars

\* The lookup structures: exact set, generic map, copy of the supported list.
\* parts[0] is an index expression: it panics when SplitN returns no part.
BuildLookup ==
    /\ pc = "entry"
    /\ ~(header = Empty \/ Len(supported) = 0)
    /\ IF \E i \in DOMAIN supported : Len(SplitN2(supported[i], Hyphen)) < 1
       THEN /\ pc' = "panic"
            /\ UNCHANGED <<supportedOrder, supportedExact, supportedGeneric>>
       ELSE /\ supportedOrder' = supported
            /\ supportedExact' = BuildExact(supported, 1, {})
            /\ supportedGeneric' = BuildGeneric(supported, 1, NoMap)
            /\ pc' = "split"
    /\ UNCHANGED <<header, supported, clientPrefs, idx, lang, result, seen>>
    /\ UNCHANGED callerVars

\* Variant of SplitHeader whose seen set outlives the call.
SplitHeaderKeepSeen ==
    /\ pc = "split"
    /\ clientPrefs' = Split(header, Comma)
    /\ result' = <<>>
    /\ idx' = 1
    /\ pc' = "loop"
    /\ UNCHANGED <<header, supported, supportedExact, supportedGeneric,
                   supportedOrder, lang, seen>>
    /\ UNCHANGED callerVars

\* clientPrefs := strings.Split(header, ","); result and seen start empty.
SplitHeader ==
    /\ pc = "split"
    /\ clientPrefs' = Split(header, Comma)
    /\ result' = <<>>
    /\ seen' = {}
    /\ idx' = 1
    /\ pc' = "loop"
    /\ UNCHANGED <<header, supported, supportedExact, supportedGeneric,
                   supportedOrder, lang>>
    /\ UNCHANGED callerVars

\* Variant of CurrentLang that lower-cases the token.
CurrentLangLower == ToLower(TrimSpace(clientPrefs[idx]))

\* The token of the current iteration: strings.TrimSpace(pref).
CurrentLang == TrimSpace(clientPrefs[idx])

InLoop == pc = "loop" /\ idx <= Len(clientPrefs)

NextToken ==
    /\ lang' = CurrentLang
    /\ idx' = idx + 1
    /\ UNCHANGED <<header, supported, pc, supportedExact, supportedGeneric,
                   supportedOrder, clientPrefs>>
    /\ UNCHANGED callerVars

\* if lang == "" { continue }
SkipEmpty ==
    /\ InLoop
    /\ CurrentLang = Empty
    /\ NextToken
    /\ UNCHANGED <<result, seen>>

\* Variant of Wildcard that ranges over the map supportedExact, whose
\* iteration order is not fixed, instead of the slice supportedOrder.
WildcardOverMap ==
    /\ InLoop
    /\ CurrentLang # Empty
    /\ CurrentLang = Star
    /\ LET U == supportedExact \ seen
       IN  \E q \in [1..Cardinality(U) -> U] :
              /\ \A i, j \in DOMAIN q : i # j => q[i] # q[j]
              /\ result' = result \o q
              /\ seen' = seen \cup U
    /\ NextToken

\* Variant of Wildcard that stops after the first language not yet seen.
WildcardFirstOnly ==
    /\ InLoop
    /\ CurrentLang # Empty
    /\ CurrentLang = Star
    /\ LET U == {i \in DOMAIN supportedOrder : supportedOrder[i] \notin seen}
       IN  IF U = {} THEN UNCHANGED <<result, seen>>
           ELSE LET f == CHOOSE i \in U : \A j \in U : i <= j
                IN  /\ result' = Append(result, supportedOrder[f])
                    /\ seen' = seen \cup {supportedOrder[f]}
    /\ NextToken

\* Variant of Wildcard that answers with the supported list, dropping what
\* the tokens before it selected.
WildcardResets ==
    /\ InLoop
    /\ CurrentLang # Empty
    /\ CurrentLang = Star
    /\ LET r == AppendUnseen(supportedOrder, 1, <<>>, {})
       IN  result' = r.result /\ seen' = r.seen
    /\ NextToken

\* Variant of Wildcard that appends the supported list whatever is seen.
WildcardNoSeen ==
    /\ InLoop
    /\ CurrentLang # Empty
    /\ CurrentLang = Star
    /\ LET r == AppendAll(supportedOrder, 1, result, seen)
       IN  result' = r.result /\ seen' = r.seen
    /\ NextToken

\* if lang == "*": every supported language not yet seen, in supported order.
Wildcard ==
    /\ InLoop
    /\ CurrentLang # Empty
    /\ CurrentLang = Star
    /\ LET r == AppendUnseen(supportedOrder, 1, result, seen)
       IN  result' = r.result /\ seen' = r.seen
    /\ NextToken

\* Variant of ExactMatch that does not consult the seen set.
ExactMatchNoSeen ==
    /\ InLoop
    /\ CurrentLang # Empty
    /\ CurrentLang # Star
    /\ CurrentLang \in supportedExact
    /\ result' = Append(result, CurrentLang)
    /\ seen' = seen \cup {CurrentLang}
    /\ NextToken

\* Variant of ExactMatch that does not consult supportedExact.
ExactMatchUnchecked ==
    /\ InLoop
    /\ CurrentLang # Empty
    /\ CurrentLang # Star
    /\ CurrentLang \notin seen
    /\ result' = Append(result, CurrentLang)
    /\ seen' = seen \cup {CurrentLang}
    /\ NextToken

\* Variant of ExactMatch that puts the matched tag in front of the result.
ExactMatchPrepend ==
    /\ InLoop
    /\ CurrentLang # Empty
    /\ CurrentLang # Star
    /\ CurrentLang \in supportedExact /\ CurrentLang \notin seen
    /\ result' = <<CurrentLang>> \o result
    /\ seen' = seen \cup {CurrentLang}
    /\ NextToken

\* Variant of ExactMatch that does not mark the appended tag as seen.
ExactMatchNoMark ==
    /\ InLoop
    /\ CurrentLang # Empty
    /\ CurrentLang # Star
    /\ CurrentLang \in supportedExact /\ CurrentLang \notin seen
    /\ result' = Append(result, CurrentLang)
    /\ seen' = seen
    /\ NextToken

\* Variant of ExactMatch without the continue: the token goes on to the
\* generic rule.
ExactMatchFallThrough ==
    /\ InLoop
    /\ CurrentLang # Empty
    /\ CurrentLang # Star
    /\ CurrentLang \in supportedExact /\ CurrentLang \notin seen
    /\ IF ~Contains(CurrentLang, Hyphen) /\ CurrentLang \in DOMAIN supportedGeneric
       THEN LET r == AppendUnseen(supportedGeneric[CurrentLang], 1,
                                  Append(result, CurrentLang),
                                  seen \cup {CurrentLang})
            IN  result' = r.result /\ seen' = r.seen
       ELSE /\ result' = Append(result, CurrentLang)
            /\ seen' = seen \cup {CurrentLang}
    /\ NextToken

\* if supportedExact[lang] && !seen[lang]: append lang, continue.
ExactMatch ==
    /\ InLoop
    /\ CurrentLang # Empty
    /\ CurrentLang # Star
    /\ CurrentLang \in supportedExact /\ CurrentLang \notin seen
    /\ result' = Append(result, CurrentLang)
    /\ seen' = seen \cup {CurrentLang}
    /\ NextToken

\* Variant of GenericMatch that leaves tokens that are supported tags to the
\* exact rule alone.
GenericMatchNotForTags ==
    /\ InLoop
    /\ CurrentLang # Empty
    /\ CurrentLang # Star
    /\ ~(CurrentLang \in supportedExact /\ CurrentLang \notin seen)
    /\ ~Contains(CurrentLang, Hyphen)
    /\ IF CurrentLang \in DOMAIN supportedGeneric /\ CurrentLang \notin supportedExact
       THEN LET r == AppendUnseen(supportedGeneric[CurrentLang], 1, result, seen)
            IN  result' = r.result /\ seen' = r.seen
       ELSE UNCHANGED <<result, seen>>
    /\ NextToken

\* Variant of GenericMatch that puts the new variants in front of the result.
GenericMatchInFront ==
    /\ InLoop
    /\ CurrentLang # Empty
    /\ CurrentLang # Star
    /\ ~(CurrentLang \in supportedExact /\ CurrentLang \notin seen)
    /\ ~Contains(CurrentLang, Hyphen)
    /\ IF CurrentLang \in DOMAIN supportedGeneric
       THEN LET r == AppendUnseen(supportedGeneric[CurrentLang], 1, <<>>, seen)
            IN  result' = r.result \o result /\ seen' = r.seen
       ELSE UNCHANGED <<result, seen>>
    /\ NextToken

\* Variant of GenericMatch that stops after the first variant not yet seen.
GenericMatchFirstOnly ==
    /\ InLoop
    /\ CurrentLang # Empty
    /\ CurrentLang # Star
    /\ ~(CurrentLang \in supportedExact /\ CurrentLang \notin seen)
    /\ ~Contains(CurrentLang, Hyphen)
    /\ IF CurrentLang \in DOMAIN supportedGeneric
       THEN LET vs == supportedGeneric[CurrentLang]
                U == {i \in DOMAIN vs : vs[i] \notin seen}
            IN  IF U = {} THEN UNCHANGED <<result, seen>>
                ELSE LET f == CHOOSE i \in U : \A j \in U : i <= j
                     IN  /\ result' = Append(result, vs[f])
                         /\ seen' = seen \cup {vs[f]}
       ELSE UNCHANGED <<result, seen>>
    /\ NextToken

\* Variant of GenericMatch whose expansion ignores the seen set.
GenericMatchNoSeen ==
    /\ InLoop
    /\ CurrentLang # Empty
    /\ CurrentLang # Star
    /\ ~(CurrentLang \in supportedExact /\ CurrentLang \notin seen)
    /\ ~Contains(CurrentLang, Hyphen)
    /\ IF CurrentLang \in DOMAIN supportedGeneric
       THEN LET r == AppendUnseen(supportedGeneric[CurrentLang], 1, result, {})
            IN  result' = r.result /\ seen' = seen \cup r.seen
       ELSE UNCHANGED <<result, seen>>
    /\ NextToken

\* Variant of GenericMatch that appends a variant as often as the supported
\* list repeats it.
GenericMatchRepeats ==
    /\ InLoop
    /\ CurrentLang # Empty
    /\ CurrentLang # Star
    /\ ~(CurrentLang \in supportedExact /\ CurrentLang \notin seen)
    /\ ~Contains(CurrentLang, Hyphen)
    /\ IF CurrentLang \in DOMAIN supportedGeneric
       THEN LET vs == supportedGeneric[CurrentLang]
                new == SelectSeq(vs, LAMBDA v : v \notin seen)
            IN  result' = result \o new /\ seen' = seen \cup {new[i] : i \in DOMAIN new}
       ELSE UNCHANGED <<result, seen>>
    /\ NextToken

\* if !strings.Contains(lang, "-"): the variants of the generic tag not yet seen.
GenericMatch ==
    /\ InLoop
    /\ CurrentLang # Empty
    /\ CurrentLang # Star
    /\ ~(CurrentLang \in supportedExact /\ CurrentLang \notin seen)
    /\ ~Contains(CurrentLang, Hyphen)
    /\ IF CurrentLang \in DOMAIN supportedGeneric
       THEN LET r == AppendUnseen(supportedGeneric[CurrentLang], 1, result, seen)
            IN  result' = r.result /\ seen' = r.seen
       ELSE UNCHANGED <<result, seen>>
    /\ NextToken

\* Variant of NoMatch that falls back to the language prefix of the token.
NoMatchPrefixFallback ==
    /\ InLoop
    /\ CurrentLang # Empty
    /\ CurrentLang # Star
    /\ ~(CurrentLang \in supportedExact /\ CurrentLang \notin seen)
    /\ Contains(CurrentLang, Hyphen)
    /\ IF Generic(CurrentLang) \in DOMAIN supportedGeneric
       THEN LET r == AppendUnseen(supportedGeneric[Generic(CurrentLang)], 1,
                                  result, seen)
            IN  result' = r.result /\ seen' = r.seen
       ELSE UNCHANGED <<result, seen>>
    /\ NextToken

\* A token with a hyphen that is no unseen supported tag: next iteration.
NoMatch ==
    /\ InLoop
    /\ CurrentLang # Empty
    /\ CurrentLang # Star
    /\ ~(CurrentLang \in supportedExact /\ CurrentLang \notin seen)
    /\ Contains(CurrentLang, Hyphen)
    /\ NextToken
    /\ UNCHANGED <<result, seen>>

\* return result
Return ==
    /\ pc = "loop"
    /\ idx > Len(clientPrefs)
    /\ pc' = "done"
    /\ UNCHANGED <<header, supported, supportedExact, supportedGeneric,
                   supportedOrder, clientPrefs, idx, lang, result, seen>>
    /\ UNCHANGED callerVars

Next ==
    \/ EarlyReturn
    \/ BuildLookup
    \/ SplitHeader
    \/ SkipEmpty
    \/ Wildcard
    \/ ExactMatch
    \/ GenericMatch
    \/ NoMatch
    \/ Return

Spec == Init /\ [][Next]_vars

(***************************************************************************)
(* LanguageParser.Parse of parser.go.                                      *)
(***************************************************************************)
\* supportedSet: the set of the supported tags.
RECURSIVE BuildSupportedSet(_, _, _)
BuildSupportedSet(sup, i, set) ==
    IF i > Len(sup) THEN set
    ELSE BuildSupportedSet(sup, i + 1, set \cup {sup[i]})

\* Variant of ParserStep without the seen check.
ParserStepNoSeen(r, set, pref) ==
    LET l == TrimSpace(pref)
    IN  IF l = Empty THEN r
        ELSE IF l \in set
             THEN [result |-> Append(r.result, l), seen |-> r.seen \cup {l}]
             ELSE r

\* Variant of ParserStep that looks up the piece as it stands, untrimmed.
ParserStepNoTrim(r, set, pref) ==
    IF TrimSpace(pref) = Empty THEN r
    ELSE IF pref \in set /\ pref \notin r.seen
         THEN [result |-> Append(r.result, pref), seen |-> r.seen \cup {pref}]
         ELSE r

\* One iteration over preferences: a trimmed token that is not empty, is in
\* supportedSet and is not seen is appended and marked seen.
ParserStep(r, set, pref) ==
    LET l == TrimSpace(pref)
    IN  IF l = Empty THEN r
        ELSE IF l \in set /\ l \notin r.seen
             THEN [result |-> Append(r.result, l), seen |-> r.seen \cup {l}]
             ELSE r

RECURSIVE ParserLoop(_, _, _, _)
ParserLoop(prefs, i, set, r) ==
    IF i > Len(prefs) THEN r
    ELSE ParserLoop(prefs, i + 1, set, ParserStep(r, set, prefs[i]))

LanguageParserParse(h, sup) ==
    IF h = Empty THEN <<>>
    ELSE IF Len(sup) = 0 THEN <<>>
    ELSE ParserLoop(Split(h, Comma), 1, BuildSupportedSet(sup, 1, {}),
                    [result |-> <<>>, seen |-> {}]).result

(***************************************************************************)
(* The callers: the tests and the benchmark call the matcher again with    *)
(* the same arguments, with the header of a padded test written without    *)
(* padding, and call LanguageParser.Parse with the same arguments.         *)
(***************************************************************************)
\* The k-th comma of h (0 before the first, Len(h) + 1 after the last).
CommaPositions(h) == {i \in DOMAIN h : h[i] = Comma}
KthComma(h, k) ==
    IF k = 0 THEN 0
    ELSE IF k > Cardinality(CommaPositions(h)) THEN Len(h) + 1
    ELSE CHOOSE c \in CommaPositions(h) :
             Cardinality({d \in CommaPositions(h) : d < c}) = k - 1

\* s without the white space at its two ends.
Strip(s) ==
    LET I == {i \in DOMAIN s : s[i] \notin WhiteSpace}
    IN  IF I = {} THEN <<>>
        ELSE SubSeq(s, CHOOSE a \in I : \A b \in I : a <= b,
                       CHOOSE a \in I : \A b \in I : b <= a)

\* The tokens of h as a reader sees them: the text between commas, without
\* surrounding white space, blank stretches left out.
CleanTokens(h) ==
    SelectSeq([k \in 1..(Cardinality(CommaPositions(h)) + 1) |->
                   Strip(SubSeq(h, KthComma(h, k - 1) + 1, KthComma(h, k) - 1))],
              LAMBDA t : t # Empty)

\* The locals of a call do not exist before it: they keep whatever the
\* memory held.
Recall ==
    /\ pc = "done"
    /\ call = "first"
    /\ first' = result
    /\ pc' = "entry"
    /\ UNCHANGED <<supported, supportedExact, supportedGeneric, supportedOrder,
                   clientPrefs, idx, lang, result, seen, parsed,
                   parked>>

\* The matcher is called once more with the same header and supported list.
CallAgain ==
    /\ Recall
    /\ call' = "again"
    /\ header' = header

\* The matcher is called once more with the header written without padding
\* and without blank pieces.
CallNormalized ==
    /\ Recall
    /\ header # Join(CleanTokens(header))
    /\ call' = "normalized"
    /\ header' = Join(CleanTokens(header))

\* LanguageParser.Parse of parser.go is called with the same arguments.
ParseCall ==
    /\ pc = "done"
    /\ call = "first"
    /\ parsed' = LanguageParserParse(header, supported)
    /\ call' = "parser"
    /\ UNCHANGED <<header, supported, pc, supportedExact, supportedGeneric,
                   supportedOrder, clientPrefs, idx, lang, result, seen, first,
                   parked>>

NextCalls ==
    \/ Next
    \/ CallAgain
    \/ CallNormalized
    \/ ParseCall

InitCalls ==
    /\ InputFrom(PiecesA, TagsA) \/ InputFrom(PiecesW, TagsW)
    /\ pc = "entry"
    /\ supportedExact = {}
    /\ supportedGeneric = NoMap
    /\ supportedOrder = <<>>
    /\ clientPrefs = <<>>
    /\ idx = 0
    /\ lang = <<>>
    /\ result = <<>>
    /\ seen = {}
    /\ call = "first"
    /\ first = <<>>
    /\ parsed = <<>>
    /\ parked = NoFrame

SpecCalls == InitCalls /\ [][NextCalls]_vars

InitEdge ==
    /\ \/ InputFrom(PiecesC, TagsC)
       \/ InputFrom(PiecesE, TagsE)
       \/ InputFrom(PiecesS, TagsS)
    /\ pc = "entry"
    /\ supportedExact = {}
    /\ supportedGeneric = NoMap
    /\ supportedOrder = <<>>
    /\ clientPrefs = <<>>
    /\ idx = 0
    /\ lang = <<>>
    /\ result = <<>>
    /\ seen = {}
    /\ call = "first"
    /\ first = <<>>
    /\ parsed = <<>>
    /\ parked = NoFrame

\* The matcher is one sequential computation without blocking: a step that
\* can be taken is taken.
SpecEdge == InitEdge /\ [][Next]_vars /\ WF_vars(Next)

\* The tests call the matcher on a header and on the same header with one
\* more piece after a comma.
TagsR == {fr, frCA, enUS}
PiecesH == {fr, Star, spFrCA, Empty}

CallExtended ==
    /\ pc = "done"
    /\ call = "first"
    /\ first' = result
    /\ pc' = "entry"
    /\ call' = "extended"
    /\ \E t \in PiecesH : header' = header \o <<Comma>> \o t
    /\ UNCHANGED <<supported, supportedExact, supportedGeneric, supportedOrder,
                   clientPrefs, idx, lang, result, seen, parsed,
                   parked>>

NextHeaders ==
    \/ Next
    \/ CallExtended

InitHeaders ==
    /\ InputFrom(PiecesH, TagsR)
    /\ pc = "entry"
    /\ supportedExact = {}
    /\ supportedGeneric = NoMap
    /\ supportedOrder = <<>>
    /\ clientPrefs = <<>>
    /\ idx = 0
    /\ lang = <<>>
    /\ result = <<>>
    /\ seen = {}
    /\ call = "first"
    /\ first = <<>>
    /\ parsed = <<>>
    /\ parked = NoFrame

SpecHeaders == InitHeaders /\ [][NextHeaders]_vars

\* The callers pass the supported tags in any order, and with repeats.
PiecesL == {fr, Star, spFrCA, enUS, Empty}

\* The lists with the elements of sq in another order.
Reorderings(sq) ==
    {[i \in DOMAIN sq |-> sq[f[i]]] :
        f \in {g \in [DOMAIN sq -> DOMAIN sq] :
                  \A i, j \in DOMAIN sq : i # j => g[i] # g[j]}}

\* sq without the later repeats of its elements.
RECURSIVE WithoutRepeats(_)
WithoutRepeats(sq) ==
    IF sq = <<>> THEN <<>>
    ELSE LET r == WithoutRepeats(SubSeq(sq, 1, Len(sq) - 1))
         IN  IF \E i \in DOMAIN r : r[i] = sq[Len(sq)]
             THEN r ELSE Append(r, sq[Len(sq)])

CallPermuted ==
    /\ pc = "done"
    /\ call = "first"
    /\ first' = result
    /\ pc' = "entry"
    /\ call' = "permuted"
    /\ \E q \in Reorderings(supported) : q # supported /\ supported' = q
    /\ UNCHANGED <<header, supportedExact, supportedGeneric, supportedOrder,
                   clientPrefs, idx, lang, result, seen, parsed,
                   parked>>

CallDeduped ==
    /\ pc = "done"
    /\ call = "first"
    /\ WithoutRepeats(supported) # supported
    /\ first' = result
    /\ pc' = "entry"
    /\ call' = "deduped"
    /\ supported' = WithoutRepeats(supported)
    /\ UNCHANGED <<header, supportedExact, supportedGeneric, supportedOrder,
                   clientPrefs, idx, lang, result, seen, parsed,
                   parked>>

NextLists ==
    \/ Next
    \/ CallPermuted
    \/ CallDeduped

InitLists ==
    /\ InputFrom(PiecesL, TagsR)
    /\ pc = "entry"
    /\ supportedExact = {}
    /\ supportedGeneric = NoMap
    /\ supportedOrder = <<>>
    /\ clientPrefs = <<>>
    /\ idx = 0
    /\ lang = <<>>
    /\ result = <<>>
    /\ seen = {}
    /\ call = "first"
    /\ first = <<>>
    /\ parsed = <<>>
    /\ parked = NoFrame

SpecLists == InitLists /\ [][NextLists]_vars

\* Two invocations at once.  An invocation has its arguments and its locals
\* in a frame of its own; the running invocation's frame is the variables
\* of the state machine, the other invocation's frame is parked.
Frame ==
    [header |-> header, supported |-> supported, pc |-> pc,
     supportedExact |-> supportedExact, supportedGeneric |-> supportedGeneric,
     supportedOrder |-> supportedOrder, clientPrefs |-> clientPrefs,
     idx |-> idx, lang |-> lang, result |-> result, seen |-> seen]

\* After a call alone, two invocations start on the same arguments.
Fork ==
    /\ pc = "done"
    /\ call = "first"
    /\ first' = result
    /\ call' = "pair"
    /\ pc' = "entry"
    /\ parked' = [Frame EXCEPT !.pc = "entry"]
    /\ UNCHANGED <<header, supported, supportedExact, supportedGeneric,
                   supportedOrder, clientPrefs, idx, lang, result, seen, parsed>>

\* Variant of Switch for a seen map that is one package-level variable
\* instead of a local of each invocation.
SwitchSharedSeen ==
    /\ call = "pair"
    /\ header' = parked.header
    /\ supported' = parked.supported
    /\ pc' = parked.pc
    /\ supportedExact' = parked.supportedExact
    /\ supportedGeneric' = parked.supportedGeneric
    /\ supportedOrder' = parked.supportedOrder
    /\ clientPrefs' = parked.clientPrefs
    /\ idx' = parked.idx
    /\ lang' = parked.lang
    /\ result' = parked.result
    /\ seen' = seen
    /\ parked' = Frame
    /\ UNCHANGED <<call, first, parsed>>

\* The scheduler lets the other invocation run: the frames change places.
Switch ==
    /\ call = "pair"
    /\ header' = parked.header
    /\ supported' = parked.supported
    /\ pc' = parked.pc
    /\ supportedExact' = parked.supportedExact
    /\ supportedGeneric' = parked.supportedGeneric
    /\ supportedOrder' = parked.supportedOrder
    /\ clientPrefs' = parked.clientPrefs
    /\ idx' = parked.idx
    /\ lang' = parked.lang
    /\ result' = parked.result
    /\ seen' = parked.seen
    /\ parked' = Frame
    /\ UNCHANGED <<call, first, parsed>>

NextPair ==
    \/ Next
    \/ Fork
    \/ Switch

TagsP == {frCA, enUS}

InitPair ==
    /\ InputFrom(PiecesH, TagsP)
    /\ pc = "entry"
    /\ supportedExact = {}
    /\ supportedGeneric = NoMap
    /\ supportedOrder = <<>>
    /\ clientPrefs = <<>>
    /\ idx = 0
    /\ lang = <<>>
    /\ result = <<>>
    /\ seen = {}
    /\ call = "first"
    /\ first = <<>>
    /\ parsed = <<>>
    /\ parked = NoFrame

SpecPair == InitPair /\ [][NextPair]_vars

\* parser.go's Parse next to the matcher, on ordinary and on degenerate tags.
NextParser ==
    \/ Next
    \/ ParseCall

InitParser ==
    /\ InputFrom(PiecesA, TagsA) \/ InputFrom(PiecesE, TagsE)
    /\ pc = "entry"
    /\ supportedExact = {}
    /\ supportedGeneric = NoMap
    /\ supportedOrder = <<>>
    /\ clientPrefs = <<>>
    /\ idx = 0
    /\ lang = <<>>
    /\ result = <<>>
    /\ seen = {}
    /\ call = "first"
    /\ first = <<>>
    /\ parsed = <<>>
    /\ parked = NoFrame

SpecParser == InitParser /\ [][NextParser]_vars

(***************************************************************************)
(* Vocabulary of the properties.                                           *)
(***************************************************************************)
Range(s) == {s[i] : i \in DOMAIN s}

\* The header tokens: the pieces between commas, trimmed, empty ones dropped.
Tokens ==
    LET ps == Split(header, Comma)
    IN  SelectSeq([i \in DOMAIN ps |-> TrimSpace(ps[i])], LAMBDA t : t # Empty)

HyphenLess(t) == \A i \in DOMAIN t : t[i] # Hyphen

\* The part of tag x before its first hyphen (x itself when it has none).
Prefix(x) ==
    SubSeq(x, 1, CHOOSE k \in 0..Len(x) :
                     /\ \A i \in 1..k : x[i] # Hyphen
                     /\ (k = Len(x) \/ x[k + 1] = Hyphen))

\* Number of occurrences of x in s, and the position of its first occurrence.
Count(s, x) == Cardinality({i \in DOMAIN s : s[i] = x})
Pos(s, x) == CHOOSE i \in DOMAIN s : s[i] = x /\ \A j \in 1..(i - 1) : s[j] # x

\* a is a subsequence of b: b with some elements left out.
RECURSIVE IsSubseq(_, _)
IsSubseq(a, b) ==
    IF a = <<>> THEN TRUE
    ELSE IF b = <<>> THEN FALSE
    ELSE IF Head(a) = Head(b) THEN IsSubseq(Tail(a), Tail(b))
    ELSE IsSubseq(a, Tail(b))

\* The elements of list, from position i on, whose position is in I.
RECURSIVE AtPositions(_, _, _)
AtPositions(list, I, i) ==
    IF i > Len(list) THEN <<>>
    ELSE (IF i \in I THEN <<list[i]>> ELSE <<>>) \o AtPositions(list, I, i + 1)

\* The elements of list that satisfy P and are not in S, each once (at its
\* first occurrence), in list order.
FirstOccurrences(list, S, P(_)) ==
    AtPositions(list,
                {i \in DOMAIN list : /\ list[i] \notin S
                                     /\ P(list[i])
                                     /\ \A j \in 1..(i - 1) : list[j] # list[i]},
                1)

\* What the current step appends to result.
Appended == SubSeq(result', Len(result) + 1, Len(result'))

\* The exact rule takes token t: t is a supported tag not yet in the result.
ExactTakes(t) == t \in Range(supported) /\ t \notin Range(result)

(***************************************************************************)
(* C1..C10                                                                 *)
(***************************************************************************)
\* C1: the result never contains a tag more than once, whatever the header
\* and the supported list (repeated supported tags included).
NoDuplicateTags ==
    \A i, j \in DOMAIN result : i # j => result[i] # result[j]

\* A wildcard has run over a supported list that repeats a tag.
NoDuplicateTagsWitness ==
    /\ pc = "done"
    /\ Star \in Range(Tokens)
    /\ \E i, j \in DOMAIN supported :
          i < j /\ supported[i] = supported[j] /\ supported[i] \in Range(result)
    /\ Len(result) >= 2

\* C2: every tag of the result is an element of the supported list.
ResultInSupported ==
    \A i \in DOMAIN result : result[i] \in Range(supported)

\* A header with a token that is no supported tag has produced a result.
ResultInSupportedWitness ==
    /\ pc = "done"
    /\ result # <<>>
    /\ \E t \in Range(Tokens) : ~HyphenLess(t) /\ t \notin Range(supported)

\* C3: every tag T of the result was requested: some header token is "*",
\* or equals T, or has no hyphen and equals the prefix of T.
ResultRequested ==
    \A i \in DOMAIN result :
        \E t \in Range(Tokens) :
            \/ t = Star
            \/ t = result[i]
            \/ HyphenLess(t) /\ t = Prefix(result[i])

\* No wildcard: an exact and a generic token both contributed, a further
\* token with a hyphen matched nothing.
ResultRequestedWitness ==
    /\ pc = "done"
    /\ Star \notin Range(Tokens)
    /\ \E t \in Range(Tokens) : ~HyphenLess(t) /\ t \notin Range(supported)
    /\ \E t \in Range(Tokens) : HyphenLess(t)
    /\ Len(result) >= 2

\* C4 as stated: the result is a subsequence of the supported list.
ResultSubsequenceOfSupported == IsSubseq(result, supported)

\* C4 amended: the result is a sub-multiset of the supported list (each tag
\* a supported tag, at most once), and the tags appended by one token are
\* a subsequence of the supported list; across tokens header order rules.
ResultSubMultisetOfSupported ==
    /\ [](\A x \in Range(result) :
              Count(result, x) = 1 /\ Count(supported, x) >= 1)
    /\ [][/\ Len(result') >= Len(result)
          /\ SubSeq(result', 1, Len(result)) = result
          /\ IsSubseq(Appended, supported)]_vars

\* A complete result that is not in supported order.
ResultSubMultisetWitness ==
    /\ pc = "done"
    /\ Len(result) >= 3
    /\ ~IsSubseq(result, supported)

\* C5: an empty header or an empty supported list gives the empty result,
\* by the early return.
EmptyInputGivesEmptyResult ==
    (header = Empty \/ supported = <<>>) =>
        (pc \in {"entry", "done"} /\ result = <<>>)

\* Returned with an empty header and a supported list that is not empty.
EmptyInputWitness ==
    /\ pc = "done"
    /\ header = Empty
    /\ Len(supported) >= 2

\* C6: when every token has a hyphen, the result is the list of the tokens
\* that are supported tags, each once, in order of first occurrence in the
\* header.
ExactOnlyHeaderOrder ==
    (pc = "done" /\ \A t \in Range(Tokens) : ~HyphenLess(t)) =>
        result = FirstOccurrences(Tokens, {}, LAMBDA t : t \in Range(supported))

\* Two exact matches returned in the order opposite to the supported list.
ExactOnlyHeaderWitness ==
    /\ pc = "done"
    /\ Tokens # <<>>
    /\ \A t \in Range(Tokens) : ~HyphenLess(t)
    /\ Len(result) >= 2
    /\ Pos(supported, result[2]) < Pos(supported, result[1])

\* C7: a "*" token appends every supported tag not yet in the result, in
\* supported order; after it every distinct supported tag is in the result
\* exactly once.
WildcardAppendsRemaining ==
    [][(InLoop /\ CurrentLang = Star) =>
          /\ result' = result \o FirstOccurrences(supported, Range(result),
                                                  LAMBDA x : TRUE)
          /\ \A x \in Range(supported) : Count(result', x) = 1]_vars

\* A wildcard has just completed a result begun by another token.
WildcardWitness ==
    /\ pc = "loop"
    /\ idx > 1
    /\ lang = Star
    /\ Len(result) >= 3
    /\ result[1] # supported[1]

GenericMatchesAllVariants ==
    pc = "done" =>
        \A t \in Range(Tokens) :
            HyphenLess(t) =>
                \A x \in Range(supported) : Prefix(x) = t => x \in Range(result)

\* C9 amended: each time a hyphen-less token is met, either the exact rule
\* takes it (it is a supported tag not yet in the result, and not "*") and
\* appends it alone, or afterwards every supported tag with that prefix is
\* in the result.
GenericMatchesUnlessExact ==
    [][(InLoop /\ CurrentLang # Empty /\ HyphenLess(CurrentLang)) =>
          IF CurrentLang # Star /\ ExactTakes(CurrentLang)
          THEN result' = Append(result, CurrentLang)
          ELSE \A x \in Range(supported) :
                   Prefix(x) = CurrentLang => x \in Range(result')]_vars

\* Token fr has just selected both French variants.
GenericMatchesWitness ==
    /\ pc = "loop"
    /\ idx = 2
    /\ lang = fr
    /\ Len(result) = 2
    /\ \A x \in Range(result) : x # fr /\ Prefix(x) = fr

Requests(t, x) ==
    \/ t = Star
    \/ t = x
    \/ HyphenLess(t) /\ t = Prefix(x)

\* C11: the tokens are processed from left to right, one position per
\* iteration, and what the token at a position appends (tags it asks for,
\* not yet in the result) goes behind everything appended at earlier
\* positions: the result is ordered by the position of the appending token.
ResultOrderedByToken ==
    [][InLoop =>
          /\ idx' = idx + 1
          /\ lang' = TrimSpace(Split(header, Comma)[idx])
          /\ Len(result') >= Len(result)
          /\ SubSeq(result', 1, Len(result)) = result
          /\ \A k \in DOMAIN Appended :
                /\ Requests(lang', Appended[k])
                /\ Appended[k] \notin Range(result)]_vars

\* Three tokens at three positions have each appended one tag, in turn.
ResultOrderedWitness ==
    /\ pc = "done"
    /\ Len(Tokens) = 3
    /\ Len(result) = 3
    /\ \A k \in 1..3 : Requests(Tokens[k], result[k])
    /\ \E k \in 1..3 : HyphenLess(Tokens[k]) /\ Tokens[k] # Star

\* C12: once a "*" token has been processed no later token changes the
\* result, and a header whose first token is "*" returns the distinct
\* supported tags in supported order.
NothingAfterWildcard ==
    /\ [][(InLoop /\ \E k \in 1..(idx - 1) : TrimSpace(clientPrefs[k]) = Star)
              => result' = result]_vars
    /\ [](( /\ pc = "done"
            /\ supported # <<>>
            /\ Tokens # <<>>
            /\ Tokens[1] = Star) =>
               result = FirstOccurrences(supported, {}, LAMBDA x : TRUE))

\* A wildcard first, then an exact and a generic token of supported tags.
NothingAfterWildcardWitness ==
    /\ pc = "done"
    /\ Len(Tokens) = 3
    /\ Tokens[1] = Star
    /\ \E k \in 2..3 : Tokens[k] \in Range(supported)
    /\ \E k \in 2..3 : HyphenLess(Tokens[k]) /\ Tokens[k] # Star
                          /\ \E x \in Range(supported) : Prefix(x) = Tokens[k]
    /\ Len(result) >= 2

\* C13: padding around tokens and empty or blank pieces do not count: the
\* header written as its clean tokens joined by commas gives the same
\* result, and a header of commas and white space only gives none.
TokenizationIgnoresPadding ==
    /\ (call = "normalized" /\ pc = "done") => result = first
    /\ (pc = "done" /\ \A i \in DOMAIN header : header[i] \in WhiteSpace \cup {Comma})
           => result = <<>>

\* A padded header and its clean form have both returned two tags or more.
TokenizationWitness ==
    /\ call = "normalized"
    /\ pc = "done"
    /\ Len(result) >= 2
    /\ first = result

\* t and y differ, but not when letter case is ignored.
CaseOnly(t, y) == t # y /\ ToLower(t) = ToLower(y)

\* C14: a token that differs from a supported tag, or from the prefix of
\* one, in letter case only, and equals no tag and no prefix, adds nothing;
\* "en-us" on [en-US] gives the empty result.
CaseSensitiveMatching ==
    /\ [][(/\ InLoop
           /\ LET t == Strip(clientPrefs[idx])
              IN  /\ t # Empty
                  /\ t # Star
                  /\ t \notin Range(supported)
                  /\ ~(HyphenLess(t) /\ \E y \in Range(supported) : Prefix(y) = t)
                  /\ \E y \in Range(supported) :
                        CaseOnly(t, y) \/ CaseOnly(t, Prefix(y)))
              => result' = result]_vars
    /\ []((pc = "done" /\ header = enus /\ supported = <<enUS>>) => result = <<>>)

\* Token EN has been processed against a list with en-US: nothing added.
CaseSensitiveWitness ==
    /\ pc = "loop"
    /\ idx = 2
    /\ Strip(clientPrefs[1]) = upEN
    /\ enUS \in Range(supported)
    /\ result = <<>>

\* C15: LanguageParser.Parse of parser.go returns what parseAcceptLanguage
\* returns, for every header and supported list.
ParserEqualsFunction ==
    call = "parser" => parsed = result

ReadmeDuplicatePrevention ==
    (/\ pc = "done"
     /\ header = Join(<<enUS, spEn, spEnGB>>)
     /\ supported = <<enUS, enGB, enAU>>) => result = <<enUS, enGB>>

\* C18: a second evaluation on the same header and supported list returns
\* the sequence the first one returned.
SecondCallSameResult ==
    (call = "again" /\ pc = "done") => result = first

\* Both evaluations have returned three tags, a wildcard among the tokens.
SecondCallWitness ==
    /\ call = "again"
    /\ pc = "done"
    /\ Star \in Range(Tokens)
    /\ Len(result) >= 3
    /\ first = result

\* C19: no input leads to a panic; every call returns, after one pass over
\* the pieces of the header.
Totality ==
    /\ [](pc # "panic")
    /\ [](pc = "loop" => idx <= Len(clientPrefs) + 1)
    /\ [][InLoop => idx' = idx + 1]_vars
    /\ <>(pc = "done")

\* Returned for a list with the empty tag and a tag that begins with a
\* hyphen, and a header with stray commas and a wildcard.
TotalityWitness ==
    /\ pc = "done"
    /\ Empty \in Range(supported)
    /\ hyX \in Range(supported)
    /\ Len(Tokens) < Len(clientPrefs)
    /\ Star \in Range(Tokens)
    /\ result # <<>>

\* C20: a call never changes the supported list (nor the header), and it
\* makes its working state anew: the lookups from the supported list, the
\* result and the seen set empty, whatever an earlier call left behind.
NoSideEffects ==
    [][/\ supported' = supported
       /\ (call' = call => header' = header)
       /\ (pc = "split" => (result' = <<>> /\ seen' = {}))
       /\ (pc = "entry" /\ pc' = "split") =>
              /\ supportedOrder' = supported
              /\ supportedExact' = Range(supported)
              /\ DOMAIN supportedGeneric' = {Prefix(y) : y \in Range(supported)}]_vars

\* A second call starts its loop with an empty seen set after a first call
\* that returned tags.
NoSideEffectsWitness ==
    /\ call = "again"
    /\ pc = "loop"
    /\ idx = 1
    /\ seen = {}
    /\ result = <<>>
    /\ first # <<>>

(***************************************************************************)
(* C21..C30                                                                *)
(***************************************************************************)
\* C22: one rule per token, tried in the order wildcard, exact, generic: a
\* "*" token appends the supported tags not yet in the result and nothing
\* else; a hyphen-less token that is a supported tag not yet in the result
\* appends that one tag, without its variants; any other hyphen-less token
\* appends the unseen variants; a token with a hyphen appends nothing else.
OneRulePerToken ==
    [][InLoop =>
          LET t == Strip(clientPrefs[idx])
          IN  IF t = Empty THEN result' = result
              ELSE IF t = Star
                   THEN result' = result \o
                           FirstOccurrences(supported, Range(result),
                                            LAMBDA y : TRUE)
              ELSE IF ExactTakes(t) THEN result' = Append(result, t)
              ELSE IF HyphenLess(t)
                   THEN result' = result \o
                           FirstOccurrences(supported, Range(result),
                                            LAMBDA y : Prefix(y) = t)
              ELSE result' = result]_vars

\* The first token fr, a supported tag with a variant in the supported
\* list, has appended itself alone.
OneRulePerTokenWitness ==
    /\ pc = "loop"
    /\ idx = 2
    /\ Strip(clientPrefs[1]) = fr
    /\ frCA \in Range(supported)
    /\ result = <<fr>>

\* C23: a token with a hyphen that is not a supported tag changes neither
\* the result nor the seen set (so the tokens after it are processed as
\* without it), and never selects the tags of its language: "fr-BE" alone
\* returns the empty list.
UnmatchedRegionIgnored ==
    /\ [][(/\ InLoop
           /\ ~HyphenLess(Strip(clientPrefs[idx]))
           /\ Strip(clientPrefs[idx]) \notin Range(supported))
              => /\ result' = result
                 /\ seen' = seen
                 /\ supportedExact' = supportedExact
                 /\ supportedGeneric' = supportedGeneric
                 /\ supportedOrder' = supportedOrder]_vars
    /\ []((pc = "done" /\ header = frBE) => result = <<>>)

\* fr-BE came first, found nothing although French tags are supported, and
\* the token after it has added its tags.
UnmatchedRegionWitness ==
    /\ pc = "done"
    /\ Len(Tokens) >= 2
    /\ Tokens[1] = frBE
    /\ \E y \in Range(supported) : Prefix(y) = fr
    /\ result # <<>>

ParserAgreesOnRegionalHeaders ==
    (call = "parser" /\ \A t \in Range(CleanTokens(header)) : ~HyphenLess(t))
        => parsed = result

\* A padded header of two regional tokens, one of them not supported: both
\* return the other.
ParserAgreesWitness ==
    /\ call = "parser"
    /\ Len(CleanTokens(header)) >= 2
    /\ \A t \in Range(CleanTokens(header)) : ~HyphenLess(t)
    /\ \E t \in Range(CleanTokens(header)) : t \notin Range(supported)
    /\ header # Join(CleanTokens(header))
    /\ parsed # <<>>
    /\ parsed = result

\* The state of Parse's loop after i iterations.
ParserLoopAfter(i) ==
    ParserLoop(SubSeq(Split(header, Comma), 1, i), 1,
               BuildSupportedSet(supported, 1, {}),
               [result |-> <<>>, seen |-> {}])

\* C30: between the iterations of the token loop, of the matcher and of
\* Parse of parser.go, the seen set is the set of the tags in the result.
SeenIsResult ==
    /\ pc = "loop" => seen = Range(result)
    /\ (call = "parser" /\ header # Empty /\ Len(supported) # 0) =>
           \A i \in 0..Len(Split(header, Comma)) :
               ParserLoopAfter(i).seen = Range(ParserLoopAfter(i).result)

\* Both loops have run to their end and appended tags.
SeenIsResultWitness ==
    /\ call = "parser"
    /\ Len(parsed) >= 2
    /\ Len(result) >= 3
    /\ seen = Range(result)
    /\ ParserLoopAfter(Len(Split(header, Comma))).result = parsed

\* a is an initial part of b.
IsPrefix(a, b) == Len(a) <= Len(b) /\ SubSeq(b, 1, Len(a)) = a

\* A header that ends with "," and a piece: what stands before that comma,
\* and the token after it.
LastComma == CHOOSE c \in CommaPositions(header) :
                 \A d \in CommaPositions(header) : d <= c
HeaderBefore == SubSeq(header, 1, LastComma - 1)
TokenAdded == Strip(SubSeq(header, LastComma + 1, Len(header)))

\* C24: when every token of the header has a hyphen, the supported list in
\* any other order gives the same result.
SupportedOrderIrrelevantForExact ==
    (/\ call = "permuted"
     /\ pc = "done"
     /\ \A t \in Range(CleanTokens(header)) : ~HyphenLess(t)) => result = first

\* Two regional tokens, both supported: the permuted list has returned the
\* same two tags.
SupportedOrderWitness ==
    /\ call = "permuted"
    /\ pc = "done"
    /\ \A t \in Range(CleanTokens(header)) : ~HyphenLess(t)
    /\ Len(result) = 2
    /\ result = first
    /\ supported[1] # frCA

\* C27: the result for a header is an initial part of the result for that
\* header followed by "," and one more token, for the matcher and for Parse
\* of parser.go; a loop step keeps what is in the result, in place.
AppendOnlyOverHeader ==
    /\ []((call = "extended" /\ pc = "done") => IsPrefix(first, result))
    /\ [](call = "extended" =>
             IsPrefix(LanguageParserParse(HeaderBefore, supported),
                      LanguageParserParse(header, supported)))
    /\ [][InLoop => IsPrefix(result, result')]_vars

\* The added token has put tags after the two the shorter header gives.
AppendOnlyWitness ==
    /\ call = "extended"
    /\ pc = "done"
    /\ Len(first) >= 2
    /\ Len(result) > Len(first)
    /\ IsPrefix(first, result)

\* C28: a header followed by "," and a token it already has gives the
\* result of the header alone, when that token has a hyphen, is "*", or is
\* not a supported tag.
RepeatedTokenAddsNothing ==
    (/\ call = "extended"
     /\ pc = "done"
     /\ TokenAdded \in Range(CleanTokens(HeaderBefore))
     /\ \/ ~HyphenLess(TokenAdded)
        \/ TokenAdded = Star
        \/ TokenAdded \notin Range(supported)) => result = first

\* A generic token that is no supported tag came a second time, after it
\* had selected a variant.
RepeatedTokenWitness ==
    /\ call = "extended"
    /\ pc = "done"
    /\ TokenAdded = fr
    /\ fr \in Range(CleanTokens(HeaderBefore))
    /\ fr \notin Range(supported)
    /\ frCA \in Range(result)
    /\ result = first

\* C29: the supported list without the later repeats of its tags gives the
\* result of the list with them.
RepeatsInSupportedIrrelevant ==
    (call = "deduped" /\ pc = "done") => result = first

\* A repeated variant, requested by its generic token and by the wildcard,
\* and the list without the repeat have returned the same tags.
RepeatsInSupportedWitness ==
    /\ call = "deduped"
    /\ pc = "done"
    /\ fr \in Range(CleanTokens(header))
    /\ Star \in Range(CleanTokens(header))
    /\ Len(result) >= 2
    /\ result = first

\* C21: of two invocations running at once, in any interleaving of their
\* steps, each returns what the call alone returned; a step of one
\* invocation leaves the frame of the other as it is.
ConcurrentInvocationsIndependent ==
    /\ [](call = "pair" =>
             /\ pc = "done" => result = first
             /\ parked.pc = "done" => parked.result = first)
    /\ [][(call = "pair" /\ call' = "pair") =>
             \/ parked' = parked
             \/ parked' = Frame /\ Frame' = parked]_vars

\* One invocation has returned the tags of the call alone while the other
\* is in the middle of its loop, with tags already seen.
ConcurrentWitness ==
    /\ call = "pair"
    /\ pc = "loop"
    /\ idx = 2
    /\ seen # {}
    /\ parked.pc = "done"
    /\ Len(parked.result) >= 2
    /\ parked.result = first

====
